---- MODULE Spec2Model ----
(***************************************************************************)
(* tsraild: the upstream ClientQuery session (ClientQueryConnection), the  *)
(* participant registry (TSRailState) and the control socket, as one       *)
(* state machine.                                                          *)
(*                                                                         *)
(* The daemon is a single asyncio event loop.  The model keeps asyncio's   *)
(* cooperative scheduling: `ready` is the loop's FIFO of runnable tasks,   *)
(* `cur` the task that is running; a running task takes steps until it     *)
(* suspends (waits for the lock, for its response, for a line, for a       *)
(* timer) and only then may the environment act or the next task run.      *)
(***************************************************************************)
EXTENDS Integers, Sequences, FiniteSets, TLC

\* ------------------------------------------------------------------ bounds
MaxClid == 2        \* clids 1..MaxClid
MaxUid == 2         \* uids 1..MaxUid
MaxChan == 2        \* channel ids 1..MaxChan
MaxName == 2        \* channel names 1..MaxName
MaxNick == 1        \* nicknames 1..MaxNick
MaxTasks == 2       \* slots for tasks made by asyncio.create_task
MaxInbuf == 2       \* lines received and not yet read by the reader loop
MaxPayload == 2     \* records of the answer to clientlist: the own one first
MaxEvents == 1      \* events of each kind the environment may cause (see Spend)
MaxSid == 2         \* server connection handler ids 1..MaxSid
Letters == 2        \* letters of the nicknames the sorted lists are tried on

\* Python's None, for every Optional field.
None == 0 - 1

Clids == 1 .. MaxClid
Uids == 1 .. MaxUid
ChanIds == 1 .. MaxChan
Names == 1 .. MaxName
Nicks == 1 .. MaxNick
Sids == 1 .. MaxSid

\* `if x:` on an Optional[int]
Truthy(x) == x # None /\ x # 0

\* ------------------------------------------------------------------ tasks
\* Slots 1..MaxTasks hold the tasks made by asyncio.create_task (_mute_client,
\* on_server_change, _refresh_channel_name); then run(), the reader task and
\* the control socket's handle_client.
DynTasks == 1 .. MaxTasks
RunT == MaxTasks + 1
RdT == MaxTasks + 2
CtlT == MaxTasks + 3
CmdTasks == DynTasks \cup {RunT, CtlT}

VARIABLES
    \* ClientQueryConnection
    writer,             \* self.reader / self.writer are set
    pending,            \* self.pending: None, or the task that awaits the future
    pending_done,       \* the future has its result
    pending_result,     \* the future's result
    pending_buffer,     \* self.pending_buffer
    lock,               \* self.lock: None or its holder
    lockq,              \* the lock's waiters, first come first served
    link_ok, auth_ok,
    reader_task,        \* "none" | "ready" | "waiting" | "done" | "failed"
    \* TSRailState
    clients,            \* self.clients: clid -> Client
    corder,             \* the dict's insertion order
    server_channel_id, server_channel_name, own_clid, channel_names,
    own_uid, schandlerid,
    \* PersistentConfig, the config file and the key file
    approved_uids, ignore_uids, policies, key_file,
    disk,               \* the config file: << >>, or << what save() last wrote >>
    \* the control socket
    reply,              \* what dispatch last returned to handle_client
    \* the event loop
    runpc,              \* where run() stands
    task,               \* the tasks that call send_command
    ready, cur,
    \* the upstream and the operator
    sock,               \* "none" | "open" | "eof" | "reset"
    inbuf,              \* lines received, not yet read by the reader loop
    wire,               \* commands written and not yet answered
    upsent,             \* payload lines sent for Head(wire)
    registered,         \* clientnotifyregister was answered on this connection
    world,              \* what the TeamSpeak client reports (see Answer)
    fuel,               \* kind of event -> how many the environment may still cause
    \* history
    window,             \* every line read since the last command was written
    last_write,         \* what was last written to the socket
    mute_acked,         \* clids whose clientmute the upstream answered id=0
    mutes_sent,         \* clid -> clientmute commands written for its Client
    entered,            \* clids whose Client was made by _client_enter
    born,               \* the tasks made by create_task and not yet over, oldest first
    written,            \* the commands run() wrote on this connection
    before              \* policy and config file as the control command arrived

connVars == <<writer, pending, pending_done, pending_result, pending_buffer,
              lock, lockq, link_ok, auth_ok, reader_task>>
regVars == <<clients, corder, server_channel_id, server_channel_name, own_clid,
            channel_names, own_uid, schandlerid>>
cfgVars == <<approved_uids, ignore_uids, policies, key_file, disk>>
loopVars == <<runpc, task, ready, cur, reply>>
envVars == <<sock, inbuf, wire, upsent, registered, world, fuel>>
histVars == <<window, last_write, mute_acked, mutes_sent, entered, born, written,
             before>>
vars == <<connVars, regVars, cfgVars, loopVars, envVars, histVars>>

\* ------------------------------------------------------------------ lines
Ln(k, clid, uid, cid, v) ==
    [k |-> k, clid |-> clid, uid |-> uid, cid |-> cid, v |-> v, sid |-> None]
\* a line with a schandlerid field
WithSid(l, n) == [l EXCEPT !.sid = n]

\* "error id=2569 msg=not\sconnected"
NotConnectedId == 2569
\* "error id=1796": the keepalive marker
KeepaliveId == 1796
\* any other non-zero error id (a rejected command)
RejectedId == 512

ErrorLine(id) == Ln("error", None, None, None, id)
KeepaliveLine == Ln("error", None, None, None, KeepaliveId)
Banner == Ln("payload", None, None, None, None)
EofMark == Ln("EOF", None, None, None, None)
ErrMark == Ln("ERR", None, None, None, None)

NotifyKinds == {"enter", "left", "moved", "talk", "updated", "connstatus", "serverchanged"}

\* a reader loop that takes no line for a notification
StartsWithNotifyNever(l) == FALSE
\* line.startswith("notify")
StartsWithNotify(l) == l.k \in NotifyKinds
\* a reader loop that does not know the keepalive marker
StartsWithKeepaliveNever(l) == FALSE
\* line.startswith("error id=1796")
StartsWithKeepalive(l) == l.k = "error" /\ l.v = KeepaliveId
\* line.startswith("error ")
StartsWithError(l) == l.k = "error"
\* _is_ok: any line starts with "error id=0"
IsOk(resp) == \E i \in 1 .. Len(resp) : resp[i].k = "error" /\ resp[i].v = 0

\* ------------------------------------------------------------------ steps
St(op, arg) == [op |-> op, arg |-> arg]

CommandOps == {"auth", "whoami", "use", "clientnotifyregister", "servernotifyregister",
               "channellist", "channelinfo", "clientlist", "clientmute"}

\* a resync that asks for the participants first
SyncStateStepsClientsFirst ==
    << St("clientlist", None), St("whoami", None), St("channellist", None),
       St("_refresh_channel_name", None) >>
\* sync_state
SyncStateSteps ==
    << St("whoami", None), St("channellist", None),
       St("_refresh_channel_name", None), St("clientlist", None) >>

\* _select_schandler, then the two notify registrations, then sync_state
HandshakeSteps ==
    << St("whoami", None), St("use", None),
       St("clientnotifyregister", None), St("servernotifyregister", None) >>
    \o SyncStateSteps

FreeTask == [kind |-> "free", st |-> "none", steps |-> <<>>, clid |-> None,
             live |-> FALSE, resp |-> <<>>, n |-> None]

NewTask(kind, steps, clid) ==
    [kind |-> kind, st |-> "run", steps |-> steps, clid |-> clid,
     live |-> (clid # None), resp |-> <<>>, n |-> None]

\* ------------------------------------------------------------------ registry
\* Client(clid, uid, nickname, channel_id, approved, ignored): talking and
\* muted_by_us take their defaults
NewClient(uid, nickname, cid) ==
    [uid |-> uid, nickname |-> nickname, channel_id |-> cid, talking |-> FALSE,
     approved |-> uid \in approved_uids, ignored |-> uid \in ignore_uids,
     muted_by_us |-> FALSE]

Range(s) == {s[i] : i \in 1 .. Len(s)}
Min(S) == CHOOSE x \in S : \A y \in S : x <= y
RECURSIVE Sorted(_)
Sorted(S) == IF S = {} THEN <<>> ELSE << Min(S) >> \o Sorted(S \ {Min(S)})

\* self.clients[clid] = client: a key the dict holds keeps its place
PutClient(cl, clid, c) == [k \in DOMAIN cl \cup {clid} |-> IF k = clid THEN c ELSE cl[k]]
PutOrder(ord, clid) == IF clid \in Range(ord) THEN ord ELSE Append(ord, clid)
\* del self.clients[clid]
DelClient(cl, clid) == [k \in DOMAIN cl \ {clid} |-> cl[k]]
DelOrder(ord, clid) == SelectSeq(ord, LAMBDA k : k # clid)
NoClients == [k \in {} |-> FreeTask]

\* a monitored channel that is the self channel whatever the target
monitor_channel_id_self(target, scid) == scid
\* monitor_channel_id, for a target and a self channel
monitor_channel_id(target, scid) ==
    IF Truthy(target) THEN (IF scid = target THEN target ELSE None) ELSE scid

\* _apply_policies: in_channel
InChannel(c, target, scid) ==
    LET monitor_channel == monitor_channel_id(target, scid)
    IN  IF Truthy(target) /\ monitor_channel = None
        THEN FALSE
        ELSE monitor_channel = None \/ c.channel_id = monitor_channel

\* _apply_policies: the two flags are read again from the sets
PolicyFlags(c) ==
    [c EXCEPT !.approved = c.uid \in approved_uids, !.ignored = c.uid \in ignore_uids]

\* a guard that looks at muted_by_us alone
MuteGuardMutedOnly(c) == ~c.muted_by_us
\* _apply_policies: the test that guards create_task(_mute_client(client))
MuteGuard(c) == ~c.approved /\ ~c.ignored /\ ~c.muted_by_us

WantsMute(c, target, scid) ==
    /\ InChannel(c, target, scid)
    /\ policies.auto_mute_unknown
    /\ MuteGuard(PolicyFlags(c))

\* for client in self.clients.values(): self._apply_policies(client)
ApplyAllFlags(cl) == [k \in DOMAIN cl |-> PolicyFlags(cl[k])]
ApplyAllMutes(cl, ord, target, scid) ==
    SelectSeq(ord, LAMBDA k : WantsMute(cl[k], target, scid))

\* asyncio.create_task(self._mute_client(client))
MuteTask(clid) == NewTask("mute", << St("clientmute", clid) >>, clid)
MuteTasks(clids) == [i \in 1 .. Len(clids) |-> MuteTask(clids[i])]
\* asyncio.create_task(self.connection._refresh_channel_name())
ChannelNameTask == NewTask("cn", << St("_refresh_channel_name", None) >>, None)
\* asyncio.create_task(self.connection.on_server_change()); n is the
\* schandlerid of the notification that made the task
ServerChangeTask(n) ==
    [NewTask("hop", << St("on_server_change", None) >>, None) EXCEPT !.n = n]

FreeSlots(tsk) == {t \in DynTasks : tsk[t].kind = "free"}

\* create_task for each of `news` in turn: the new task joins the loop's FIFO
RECURSIVE Spawn(_, _, _)
Spawn(tsk, rdy, news) ==
    IF news = <<>>
    THEN [task |-> tsk, ready |-> rdy]
    ELSE LET t == Min(FreeSlots(tsk))
         IN  Spawn([tsk EXCEPT ![t] = Head(news)], Append(rdy, t), Tail(news))

\* the tasks sp made beyond those of rdy, in the order they were made
Born(sp, rdy) == SubSeq(sp.ready, Len(rdy) + 1, Len(sp.ready))

\* The Client objects of `clids` leave the registry: a _mute_client task that
\* holds one of them keeps the object, which the registry no longer reads.
Orphan(tsk, clids) ==
    [t \in DOMAIN tsk |->
        IF tsk[t].live /\ tsk[t].clid \in clids
        THEN [tsk[t] EXCEPT !.live = FALSE] ELSE tsk[t]]

\* self.channel_names, a dict kept as its items in insertion order
ChanHas(cn, cid) == \E i \in 1 .. Len(cn) : cn[i].cid = cid
ChanGet(cn, cid) == (CHOOSE i \in 1 .. Len(cn) : cn[i].cid = cid)
ChanName(cn, cid) == IF ChanHas(cn, cid) THEN cn[ChanGet(cn, cid)].name ELSE None
ChanPut(cn, cid, name) ==
    IF ChanHas(cn, cid)
    THEN [cn EXCEPT ![ChanGet(cn, cid)] = [cid |-> cid, name |-> name]]
    ELSE Append(cn, [cid |-> cid, name |-> name])

\* _resolve_channel_id_by_name: the first item whose name matches
resolve_channel_id_by_name(cn, name) ==
    IF \E i \in 1 .. Len(cn) : cn[i].name = name
    THEN cn[Min({i \in 1 .. Len(cn) : cn[i].name = name})].cid
    ELSE None

\* refresh_target_from_name: the policies it leaves
refresh_target_from_name(cn, pol) ==
    IF pol.target_channel_name = None
    THEN pol
    ELSE LET cid == resolve_channel_id_by_name(cn, pol.target_channel_name)
         IN  IF cid # pol.target_channel
             THEN [pol EXCEPT !.target_channel = cid] ELSE pol

\* ------------------------------------------------------------------ Init
IdleTask(kind) == [FreeTask EXCEPT !.kind = kind, !.st = "idle"]

\* Policies(): the defaults of a first start
Policies ==
    [auto_mute_unknown |-> TRUE, require_approved |-> TRUE, target_channel |-> None,
     target_channel_name |-> None, show_ignored |-> FALSE]

\* a save() that leaves the file as it is
SaveNothing(a, i, p) == disk
\* PersistentConfig.save: the document written
Save(a, i, p) == << [approved |-> a, ignored |-> i, policies |-> p] >>

\* What the TeamSpeak client may report of itself and of the others: its own
\* clid and channel, and one more participant for each further clientlist
\* record.
NameOf(ch) == ((ch - 1) % MaxName) + 1
Worlds ==
    [clid : {MaxClid}, cid : {1}, sid : {None, 1}, burst : 1 .. MaxInbuf,
     others : [1 .. MaxPayload - 1 -> [uid : {1}, cid : {1}]]]
\* the clids of the other participants, in the order clientlist names them
OtherClid(i) == Sorted(Clids \ {world.clid})[i]

\* The kinds of event the environment causes: notifications about who is
\* where, about voices and nicknames, about the server connection; a
\* keepalive; a refused command; a lost or refused connection; and the
\* operator's commands on uids, on policies and on the key.
EventKinds ==
    {"member", "voice", "server", "keepalive", "refuse", "drop", "uid", "policy", "key"}

\* What one run lets the environment do: MaxEvents events of each kind of one
\* of these mixes, and none of the other kinds.
Budget(S) == [k \in EventKinds |-> IF k \in S THEN MaxEvents ELSE 0]
\* one more notification about who is where than the other mixes allow
TwiceMember == [Budget({}) EXCEPT !["member"] = MaxEvents + 1]
Budgets ==
    { Budget({"member", "uid", "refuse"}),
      Budget({"keepalive", "voice", "drop"}),
      Budget({"server", "key"}),
      Budget({"member", "policy"}),
      Budget({"member", "server"}),
      Budget({"server"}),
      Budget({"policy"}),
      Budget({"refuse", "key"}),
      Budget({"member"}),
      TwiceMember }

\* PersistentConfig.load: the policies of a first start, or those an earlier
\* run saved with a target channel
PersistedTarget ==
    [Policies EXCEPT !.target_channel = MaxChan, !.target_channel_name = NameOf(MaxChan)]
StartPolicies == {Policies, PersistedTarget}

\* The starts that are followed: the events that may come, the target channel
\* loaded, and the schandlerid whoami names.
Start(S, target, sid) == [fuel |-> Budget(S), target |-> target, sid |-> sid]
Starts ==
    { Start({"member", "uid", "refuse"}, None, None),
      Start({"keepalive", "voice", "drop"}, None, None),
      Start({"server", "key"}, None, None),
      Start({"server"}, None, 1),
      Start({"member", "policy"}, None, None),
      Start({"policy"}, MaxChan, None),
      Start({"member", "server"}, None, None),
      Start({"refuse", "key"}, None, None),
      Start({"member"}, None, None),
      [fuel |-> TwiceMember, target |-> None, sid |-> None] }
\* The lines the upstream may have sent before the reader loop reads one: a
\* notification right behind the end of an answer is followed where the
\* environment does nothing but tell who enters, leaves and moves.
Burst(f) == IF f = Budget({"member"}) THEN MaxInbuf ELSE 1

\* main() has built the objects and run() waits in open_connection
Init ==
    /\ writer = FALSE /\ pending = None /\ pending_done = FALSE
    /\ pending_result = <<>> /\ pending_buffer = <<>>
    /\ lock = None /\ lockq = <<>>
    /\ link_ok = FALSE /\ auth_ok = FALSE /\ reader_task = "none"
    /\ clients = NoClients /\ corder = <<>>
    /\ server_channel_id = None /\ server_channel_name = None
    /\ own_clid = None /\ channel_names = <<>>
    /\ own_uid = None /\ schandlerid = 1
    /\ approved_uids = {} /\ ignore_uids = {}
    /\ policies \in StartPolicies
    /\ disk = IF policies = Policies THEN << >>
              ELSE << [approved |-> {}, ignored |-> {}, policies |-> policies] >>
    /\ key_file \in BOOLEAN
    /\ reply = "none"
    /\ runpc = "connecting"
    /\ task = [t \in CmdTasks |->
                 IF t = RunT THEN IdleTask("run")
                 ELSE IF t = CtlT THEN IdleTask("ctl") ELSE FreeTask]
    /\ ready = <<>> /\ cur = None
    /\ sock = "none" /\ inbuf = <<>> /\ wire = <<>> /\ upsent = 0
    /\ registered = FALSE
    /\ world \in Worlds
    /\ fuel \in Budgets
    /\ [fuel |-> fuel, target |-> policies.target_channel, sid |-> world.sid]
          \in Starts
    /\ world.burst = Burst(fuel)
    /\ window = <<>> /\ last_write = "none" /\ mute_acked = {}
    /\ mutes_sent = [c \in Clids |-> 0] /\ entered = {}
    /\ born = <<>> /\ written = <<>>
    /\ before = [policies |-> policies, disk |-> disk, cmd |-> "none"]

\* ------------------------------------------------------------------ the loop
\* The event loop runs the next runnable task.
Dispatch ==
    /\ cur = None /\ ready # <<>>
    /\ cur' = Head(ready) /\ ready' = Tail(ready)
    /\ UNCHANGED <<connVars, regVars, cfgVars, runpc, task, envVars, histVars>>
    /\ UNCHANGED <<reply>>

\* One event of kind k of the environment.
Spend(k) == fuel[k] > 0 /\ fuel' = [fuel EXCEPT ![k] = @ - 1]

\* ------------------------------------------------------------------ run()
\* asyncio.open_connection succeeds; the upstream greets with a line that is
\* neither a notification nor an answer ("TS3 Client")
ConnectOk ==
    /\ cur = None /\ runpc = "connecting"
    /\ sock' = "open" /\ inbuf' = << Banner >> /\ wire' = <<>> /\ upsent' = 0
    /\ registered' = FALSE
    /\ runpc' = "connected" /\ ready' = Append(ready, RunT)
    /\ mute_acked' = {} /\ written' = <<>>
    /\ UNCHANGED <<connVars, regVars, cfgVars, task, cur, reply, world, fuel, window,
                   last_write, mutes_sent, entered, born, before>>

\* asyncio.open_connection raises ConnectionRefusedError
ConnectRefused ==
    /\ cur = None /\ runpc = "connecting"
    /\ Spend("drop")
    /\ runpc' = "except" /\ ready' = Append(ready, RunT)
    /\ UNCHANGED <<connVars, regVars, cfgVars, task, cur, sock, inbuf, wire,
                   upsent, registered, world, histVars>>
    /\ UNCHANGED <<reply>>

\* run: link_ok = True; reader_task = create_task(_reader_loop())
RunConnected ==
    /\ cur = RunT /\ runpc = "connected"
    /\ writer' = TRUE /\ link_ok' = TRUE
    /\ reader_task' = "ready" /\ ready' = Append(ready, RdT)
    /\ runpc' = "post_connect"
    /\ UNCHANGED <<pending, pending_done, pending_result, pending_buffer, lock,
                   lockq, auth_ok, regVars, cfgVars, task, cur, envVars, histVars>>
    /\ UNCHANGED <<reply>>

\* _post_connect: the key is loaded; without one the handshake is not begun
PostConnect ==
    /\ cur = RunT /\ runpc = "post_connect"
    /\ IF ~key_file
       THEN /\ auth_ok' = FALSE /\ runpc' = "await_reader" /\ UNCHANGED task
       ELSE /\ task' = [task EXCEPT ![RunT] = NewTask("run", << St("auth", None) >>, None)]
            /\ runpc' = "post" /\ UNCHANGED auth_ok
    /\ UNCHANGED <<writer, pending, pending_done, pending_result, pending_buffer,
                   lock, lockq, link_ok, reader_task, regVars, cfgVars, ready, cur,
                   envVars, histVars>>
    /\ UNCHANGED <<reply>>

\* run: await self.reader_task
AwaitReader ==
    /\ cur = RunT /\ runpc = "await_reader"
    /\ IF reader_task = "done" THEN runpc' = "finally" /\ UNCHANGED cur
       ELSE IF reader_task = "failed" THEN runpc' = "except" /\ UNCHANGED cur
       ELSE cur' = None /\ UNCHANGED runpc
    /\ UNCHANGED <<connVars, regVars, cfgVars, task, ready, envVars, histVars>>
    /\ UNCHANGED <<reply>>

\* run: except (ConnectionError, OSError), up to the sleep
RunExcept ==
    /\ cur = RunT /\ runpc = "except"
    /\ link_ok' = FALSE /\ auth_ok' = FALSE
    /\ clients' = NoClients /\ corder' = <<>>
    /\ task' = Orphan(task, Clids)
    /\ entered' = {}
    /\ runpc' = "sleeping" /\ cur' = None
    /\ UNCHANGED <<writer, pending, pending_done, pending_result, pending_buffer,
                   lock, lockq, reader_task, server_channel_id, server_channel_name, own_clid,
                   channel_names, cfgVars, ready, envVars, window, last_write,
                   mute_acked, mutes_sent>>
    /\ UNCHANGED <<own_uid, schandlerid, reply, born, written, before>>

\* asyncio.sleep(2.0) is over
SleepDone ==
    /\ cur = None /\ runpc = "sleeping"
    /\ runpc' = "finally" /\ ready' = Append(ready, RunT)
    /\ UNCHANGED <<connVars, regVars, cfgVars, task, cur, envVars, histVars>>
    /\ UNCHANGED <<reply>>

\* run: finally; then the loop turns and open_connection is called again
RunFinally ==
    /\ cur = RunT /\ runpc = "finally"
    /\ writer' = FALSE
    /\ sock' = "none" /\ inbuf' = <<>> /\ wire' = <<>> /\ upsent' = 0
    /\ registered' = FALSE
    /\ runpc' = "connecting" /\ cur' = None
    /\ UNCHANGED <<pending, pending_done, pending_result, pending_buffer, lock,
                   lockq, link_ok, auth_ok, reader_task, regVars, cfgVars, task,
                   ready, world, fuel, histVars>>
    /\ UNCHANGED <<reply>>

\* ------------------------------------------------------------------ send_command
\* a lock that never makes a caller wait
LockNeverBusy == FALSE
\* asyncio.Lock.acquire has to wait
LockBusy == lock # None

\* a lock whose newest waiter is served first
EnqueueFirst(q, t) == << t >> \o q
\* asyncio.Lock.acquire: the caller joins the waiters, behind those who wait
Enqueue(q, t) == Append(q, t)

\* asyncio.Lock.release: the first waiter is woken and owns the lock
ReleaseLock ==
    /\ lock' = IF lockq = <<>> THEN None ELSE Head(lockq)
    /\ lockq' = IF lockq = <<>> THEN <<>> ELSE Tail(lockq)
    /\ ready' = IF lockq = <<>> THEN ready ELSE Append(ready, Head(lockq))

\* send_command, to `async with self.lock`
SendCommand(t) ==
    /\ cur = t /\ task[t].st = "run" /\ task[t].steps # <<>>
    /\ Head(task[t].steps).op \in CommandOps
    /\ IF ~writer
       THEN /\ task' = [task EXCEPT ![t].st = "got",
                                    ![t].resp = << ErrorLine(NotConnectedId) >>]
            /\ UNCHANGED <<lock, lockq, cur>>
       ELSE IF ~LockBusy
       THEN /\ lock' = t
            /\ task' = [task EXCEPT ![t].st = "locked"]
            /\ UNCHANGED <<lockq, cur>>
       ELSE /\ lockq' = Enqueue(lockq, t)
            /\ task' = [task EXCEPT ![t].st = "lockwait"]
            /\ cur' = None
            /\ UNCHANGED lock
    /\ UNCHANGED <<writer, pending, pending_done, pending_result, pending_buffer,
                   link_ok, auth_ok, reader_task, regVars, cfgVars, runpc, ready,
                   envVars, histVars>>
    /\ UNCHANGED <<reply>>

\* the lock's waiter runs again, now its holder
LockGranted(t) ==
    /\ cur = t /\ task[t].st = "lockwait" /\ lock = t
    /\ task' = [task EXCEPT ![t].st = "locked"]
    /\ UNCHANGED <<connVars, regVars, cfgVars, runpc, ready, cur, envVars, histVars>>
    /\ UNCHANGED <<reply>>

\* send_command: the future is made, the command written; await self.pending
WriteCommand(t) ==
    /\ cur = t /\ task[t].st = "locked" /\ sock # "reset"
    /\ pending' = t /\ pending_done' = FALSE
    /\ pending_result' = <<>> /\ pending_buffer' = <<>>
    /\ wire' = IF sock = "open" THEN Append(wire, Head(task[t].steps)) ELSE wire
    /\ window' = <<>> /\ last_write' = "command"
    /\ mutes_sent' = IF Head(task[t].steps).op = "clientmute" /\ task[t].live
                     THEN [mutes_sent EXCEPT ![task[t].clid] = @ + 1]
                     ELSE mutes_sent
    /\ written' = IF t = RunT THEN Append(written, Head(task[t].steps).op) ELSE written
    /\ task' = [task EXCEPT ![t].st = "await"]
    /\ cur' = None
    /\ UNCHANGED <<writer, lock, lockq, link_ok, auth_ok, reader_task, regVars,
                   cfgVars, runpc, ready, reply, sock, inbuf, upsent, registered, world,
                   fuel, mute_acked, entered, born, before>>

\* send_command: writer.drain() raises ConnectionResetError; the lock is
\* released and the error leaves send_command's caller
WriteFails(t) ==
    /\ cur = t /\ task[t].st = "locked" /\ sock = "reset"
    /\ pending' = t /\ pending_done' = FALSE
    /\ pending_result' = <<>> /\ pending_buffer' = <<>>
    /\ ReleaseLock
    /\ IF t = RunT
       THEN /\ task' = [task EXCEPT ![t] = IdleTask("run")]
            /\ runpc' = "except" /\ UNCHANGED cur
       ELSE /\ task' = [task EXCEPT ![t] = IF t = CtlT THEN IdleTask("ctl") ELSE FreeTask]
            /\ cur' = None /\ UNCHANGED runpc
    /\ born' = DelOrder(born, t)
    /\ UNCHANGED <<writer, link_ok, auth_ok, reader_task, regVars, cfgVars, reply,
                   envVars, window, last_write, mute_acked, mutes_sent, entered,
                   written, before>>

\* send_command: the future has its result; the response is returned
Resume(t) ==
    /\ cur = t /\ task[t].st = "await" /\ pending = t /\ pending_done
    /\ task' = [task EXCEPT ![t].st = "got", ![t].resp = pending_result]
    /\ pending' = None /\ pending_done' = FALSE
    /\ pending_result' = <<>> /\ pending_buffer' = <<>>
    /\ ReleaseLock
    /\ UNCHANGED <<writer, link_ok, auth_ok, reader_task, regVars, cfgVars, runpc,
                   cur, envVars, histVars>>
    /\ UNCHANGED <<reply>>

\* the coroutine returns
Finish(t) ==
    /\ cur = t /\ task[t].st = "run" /\ task[t].steps = <<>>
    /\ IF t = RunT
       THEN /\ task' = [task EXCEPT ![t] = IdleTask("run")]
            /\ runpc' = "await_reader" /\ UNCHANGED cur
       ELSE /\ task' = [task EXCEPT ![t] = IF t = CtlT THEN IdleTask("ctl") ELSE FreeTask]
            /\ cur' = None /\ UNCHANGED runpc
    /\ born' = DelOrder(born, t)
    /\ reply' = IF t = CtlT THEN "ok" ELSE reply
    /\ UNCHANGED <<connVars, regVars, cfgVars, ready, envVars, window, last_write,
                   mute_acked, mutes_sent, entered, written, before>>

\* ------------------------------------------------------------------ the upstream
\* The notifications the upstream may send.
NotifyLines ==
    {Ln("enter", c, u, ch, n) : c \in Clids, u \in Uids, ch \in ChanIds, n \in Nicks}
    \cup {Ln("left", c, None, None, None) : c \in Clids}
    \cup {Ln("moved", c, None, ch, None) : c \in Clids, ch \in ChanIds}
    \cup {Ln("talk", c, None, None, s) : c \in Clids, s \in {0, 1}}
    \cup {Ln("updated", c, None, None, n) : c \in Clids, n \in Nicks}
    \cup {WithSid(Ln("connstatus", None, None, None, s), n) : s \in {0, 1}, n \in Sids}
    \cup {WithSid(Ln("serverchanged", None, None, None, None), n) : n \in Sids}

\* The payload lines that answer a command: one record a line.
Answer(cmd) ==
    CASE cmd.op = "whoami" ->
           << WithSid(Ln("payload", world.clid, None, world.cid, None), world.sid) >>
      [] cmd.op = "channellist" ->
           [ch \in 1 .. MaxChan |-> Ln("payload", None, None, ch, NameOf(ch))]
      [] cmd.op = "channelinfo" ->
           << Ln("payload", None, None, cmd.arg, NameOf(cmd.arg)) >>
      [] cmd.op = "clientlist" ->
           << Ln("payload", world.clid, MaxUid, world.cid, 1) >>
           \o [c \in 1 .. MaxPayload - 1 |->
                 Ln("payload", OtherClid(c), world.others[c].uid, world.others[c].cid, 1)]
      [] OTHER -> <<>>

\* The commands the upstream may refuse.
Refusable(cmd) == cmd.op \in {"auth", "clientmute"}

\* A line reaches the StreamReader; a reader loop waiting in readline is woken.
Receive(buf) ==
    /\ inbuf' = buf
    /\ IF reader_task = "waiting"
       THEN reader_task' = "ready" /\ ready' = Append(ready, RdT)
       ELSE UNCHANGED <<reader_task, ready>>

NotifyEvent(l) ==
    CASE l.k \in {"enter", "left", "moved"} -> "member"
      [] l.k \in {"talk", "updated"} -> "voice"
      [] OTHER -> "server"

\* The TeamSpeak client is connected to another server, or to this one again:
\* the server gives the daemon's client a clid of its own, in some channel.
IsHop(l) == l.k = "serverchanged" \/ (l.k = "connstatus" /\ l.v # 0)
Hop(l) ==
    IF IsHop(l)
    THEN {[world EXCEPT !.clid = c, !.cid = ch] : c \in Clids, ch \in 1 .. MaxChan}
    ELSE {world}

\* The upstream notifies once "clientnotifyregister ... event=any" is answered.
UpNotify ==
    /\ cur = None /\ sock = "open" /\ Len(inbuf) < world.burst
    /\ registered
    /\ \E l \in NotifyLines :
          /\ Spend(NotifyEvent(l)) /\ Receive(Append(inbuf, l))
          /\ world' \in Hop(l)
    /\ UNCHANGED <<writer, pending, pending_done, pending_result, pending_buffer,
                   lock, lockq, link_ok, auth_ok, regVars, cfgVars, runpc, task,
                   cur, reply, sock, wire, upsent, registered, histVars>>

UpKeepalive ==
    /\ cur = None /\ sock = "open" /\ Len(inbuf) < world.burst
    /\ Spend("keepalive")
    /\ Receive(Append(inbuf, KeepaliveLine))
    /\ UNCHANGED <<writer, pending, pending_done, pending_result, pending_buffer,
                   lock, lockq, link_ok, auth_ok, regVars, cfgVars, runpc, task,
                   cur, sock, wire, upsent, registered, world, histVars>>
    /\ UNCHANGED <<reply>>

\* the next payload line of the answer to the oldest command
UpPayload ==
    /\ cur = None /\ sock = "open" /\ Len(inbuf) < world.burst
    /\ wire # <<>> /\ upsent < Len(Answer(Head(wire)))
    /\ Receive(Append(inbuf, Answer(Head(wire))[upsent + 1]))
    /\ upsent' = upsent + 1
    /\ UNCHANGED <<writer, pending, pending_done, pending_result, pending_buffer,
                   lock, lockq, link_ok, auth_ok, regVars, cfgVars, runpc, task,
                   cur, sock, wire, registered, world, fuel, histVars>>
    /\ UNCHANGED <<reply>>

\* the error line that ends the answer: id=0 after the payload
UpError ==
    /\ cur = None /\ sock = "open" /\ Len(inbuf) < world.burst
    /\ wire # <<>> /\ upsent = Len(Answer(Head(wire)))
    /\ Receive(Append(inbuf, ErrorLine(0)))
    /\ mute_acked' = IF Head(wire).op = "clientmute"
                     THEN mute_acked \cup {Head(wire).arg} ELSE mute_acked
    /\ wire' = Tail(wire) /\ upsent' = 0
    /\ registered' = (registered \/ Head(wire).op = "clientnotifyregister")
    /\ UNCHANGED <<writer, pending, pending_done, pending_result, pending_buffer,
                   lock, lockq, link_ok, auth_ok, regVars, cfgVars, runpc, task,
                   cur, sock, world, fuel, window, last_write, mutes_sent, entered>>
    /\ UNCHANGED <<reply, born, written, before>>

\* the upstream refuses the command: a non-zero error id is all its answer
UpRefuse ==
    /\ cur = None /\ sock = "open" /\ Len(inbuf) < world.burst
    /\ wire # <<>> /\ upsent = 0 /\ Refusable(Head(wire))
    /\ Spend("refuse")
    /\ Receive(Append(inbuf, ErrorLine(RejectedId)))
    /\ wire' = Tail(wire)
    /\ UNCHANGED <<writer, pending, pending_done, pending_result, pending_buffer,
                   lock, lockq, link_ok, auth_ok, regVars, cfgVars, runpc, task,
                   cur, sock, upsent, registered, world, histVars>>
    /\ UNCHANGED <<reply>>

\* The upstream closes the connection: the reader loop will read EOF.
UpClose ==
    /\ cur = None /\ sock = "open"
    /\ Spend("drop")
    /\ sock' = "eof" /\ wire' = <<>> /\ upsent' = 0 /\ registered' = FALSE
    /\ Receive(Append(inbuf, EofMark))
    /\ UNCHANGED <<writer, pending, pending_done, pending_result, pending_buffer,
                   lock, lockq, link_ok, auth_ok, regVars, cfgVars, runpc, task,
                   cur, world, histVars>>
    /\ UNCHANGED <<reply>>

\* The connection is reset: readline and drain raise ConnectionResetError.
UpReset ==
    /\ cur = None /\ sock = "open"
    /\ Spend("drop")
    /\ sock' = "reset" /\ wire' = <<>> /\ upsent' = 0 /\ registered' = FALSE
    /\ Receive(<< ErrMark >>)
    /\ UNCHANGED <<writer, pending, pending_done, pending_result, pending_buffer,
                   lock, lockq, link_ok, auth_ok, regVars, cfgVars, runpc, task,
                   cur, world, histVars>>
    /\ UNCHANGED <<reply>>

\* ------------------------------------------------------------------ _reader_loop
\* readline returns the next line
Reading == cur = RdT /\ inbuf # <<>> /\ Head(inbuf).k \notin {"EOF", "ERR"}
Consume ==
    /\ inbuf' = Tail(inbuf)
    /\ window' = IF pending # None THEN Append(window, Head(inbuf)) ELSE window

\* readline has nothing to return: the reader loop waits
RdWait ==
    /\ cur = RdT /\ inbuf = <<>>
    /\ reader_task' = "waiting" /\ cur' = None
    /\ UNCHANGED <<writer, pending, pending_done, pending_result, pending_buffer,
                   lock, lockq, link_ok, auth_ok, regVars, cfgVars, runpc, task,
                   ready, envVars, histVars>>
    /\ UNCHANGED <<reply>>

\* readline returns b"": the loop breaks and the task is done
RdEof ==
    /\ cur = RdT /\ inbuf # <<>> /\ Head(inbuf).k = "EOF"
    /\ inbuf' = <<>>
    /\ reader_task' = "done" /\ cur' = None
    /\ ready' = IF runpc = "await_reader" THEN Append(ready, RunT) ELSE ready
    /\ UNCHANGED <<writer, pending, pending_done, pending_result, pending_buffer,
                   lock, lockq, link_ok, auth_ok, regVars, cfgVars, runpc, task,
                   sock, wire, upsent, registered, world, fuel, histVars>>
    /\ UNCHANGED <<reply>>

\* readline raises: the task ends with the exception
RdRaise ==
    /\ cur = RdT /\ inbuf # <<>> /\ Head(inbuf).k = "ERR"
    /\ inbuf' = <<>>
    /\ reader_task' = "failed" /\ cur' = None
    /\ ready' = IF runpc = "await_reader" THEN Append(ready, RunT) ELSE ready
    /\ UNCHANGED <<writer, pending, pending_done, pending_result, pending_buffer,
                   lock, lockq, link_ok, auth_ok, regVars, cfgVars, runpc, task,
                   sock, wire, upsent, registered, world, fuel, histVars>>
    /\ UNCHANGED <<reply>>

\* elif line.startswith("error id=1796"): a bare newline is written
RdKeepalive ==
    /\ Reading /\ Consume
    /\ ~StartsWithNotify(Head(inbuf)) /\ StartsWithKeepalive(Head(inbuf))
    /\ last_write' = IF writer THEN "newline" ELSE last_write
    /\ UNCHANGED <<connVars, regVars, cfgVars, loopVars, sock, wire, upsent, registered, world, fuel,
                   mute_acked, mutes_sent, entered>>
    /\ UNCHANGED <<born, written, before>>

\* elif self.pending is not None: the line is buffered, and a line that
\* starts with "error " gives the future its result
RdResponse ==
    /\ Reading /\ Consume
    /\ ~StartsWithNotify(Head(inbuf)) /\ ~StartsWithKeepalive(Head(inbuf))
    /\ pending # None
    /\ pending_buffer' = Append(pending_buffer, Head(inbuf))
    /\ IF StartsWithError(Head(inbuf)) /\ ~pending_done
       THEN /\ pending_done' = TRUE
            /\ pending_result' = Append(pending_buffer, Head(inbuf))
            /\ ready' = IF task[pending].st = "await"
                        THEN Append(ready, pending) ELSE ready
       ELSE UNCHANGED <<pending_done, pending_result, ready>>
    /\ UNCHANGED <<writer, pending, lock, lockq, link_ok, auth_ok, reader_task,
                   regVars, cfgVars, runpc, task, cur, sock, wire, upsent, registered, world, fuel,
                   last_write, mute_acked, mutes_sent, entered>>
    /\ UNCHANGED <<reply, born, written, before>>

\* else: an unsolicited line that is no notification is dropped
RdUnsolicited ==
    /\ Reading /\ Consume
    /\ ~StartsWithNotify(Head(inbuf)) /\ ~StartsWithKeepalive(Head(inbuf))
    /\ pending = None
    /\ UNCHANGED <<connVars, regVars, cfgVars, loopVars, sock, wire, upsent, registered, world, fuel,
                   last_write, mute_acked, mutes_sent, entered>>
    /\ UNCHANGED <<born, written, before>>

\* ------------------------------------------------------------------ handle_notification
\* create_task needs a free slot for each task it makes
CanSpawn(news) == Len(news) <= Cardinality(FreeSlots(task))

\* _client_enter
ClientEnter ==
    /\ Reading /\ Consume
    /\ StartsWithNotify(Head(inbuf)) /\ Head(inbuf).k = "enter"
    /\ LET l == Head(inbuf)
           adopted == server_channel_id = None /\ l.cid # None
           scid == IF server_channel_id = None THEN l.cid ELSE server_channel_id
           c == NewClient(l.uid, l.v, l.cid)
           news == (IF adopted THEN << ChannelNameTask >> ELSE <<>>)
                   \o (IF WantsMute(c, policies.target_channel, scid)
                       THEN << MuteTask(l.clid) >> ELSE <<>>)
           sp == Spawn(Orphan(task, {l.clid}), ready, news)
       IN  /\ server_channel_id' = scid
           /\ UNCHANGED server_channel_name
           /\ IF l.clid = own_clid
              THEN /\ own_uid' = l.uid
                   /\ UNCHANGED <<clients, corder, task, ready, mutes_sent, entered,
                                  born>>
              ELSE /\ CanSpawn(news)
                   /\ clients' = PutClient(clients, l.clid, PolicyFlags(c))
                   /\ corder' = PutOrder(corder, l.clid)
                   /\ task' = sp.task /\ ready' = sp.ready
                   /\ born' = born \o Born(sp, ready)
                   /\ mutes_sent' = [mutes_sent EXCEPT ![l.clid] = 0]
                   /\ entered' = entered \cup {l.clid}
                   /\ UNCHANGED own_uid
    /\ UNCHANGED <<connVars, own_clid, channel_names, schandlerid, cfgVars, runpc,
                   cur, reply, sock, wire, upsent, registered, world, fuel,
                   last_write, mute_acked, written, before>>

\* _client_left
ClientLeft ==
    /\ Reading /\ Consume
    /\ StartsWithNotify(Head(inbuf)) /\ Head(inbuf).k = "left"
    /\ LET l == Head(inbuf)
       IN  IF l.clid = own_clid
           THEN /\ server_channel_id' = None /\ server_channel_name' = None
                /\ UNCHANGED <<clients, corder, task, entered>>
           ELSE IF l.clid \in DOMAIN clients
           THEN /\ clients' = DelClient(clients, l.clid)
                /\ corder' = DelOrder(corder, l.clid)
                /\ task' = Orphan(task, {l.clid})
                /\ entered' = entered \ {l.clid}
                /\ UNCHANGED <<server_channel_id, server_channel_name>>
           ELSE UNCHANGED <<clients, corder, task, server_channel_id, server_channel_name, entered>>
    /\ UNCHANGED <<connVars, own_clid, channel_names, cfgVars, runpc, ready, cur,
                   sock, wire, upsent, registered, world, fuel, last_write, mute_acked,
                   mutes_sent>>
    /\ UNCHANGED <<own_uid, schandlerid, reply, born, written, before>>

\* _client_moved
ClientMoved ==
    /\ Reading /\ Consume
    /\ StartsWithNotify(Head(inbuf)) /\ Head(inbuf).k = "moved"
    /\ LET l == Head(inbuf)
           own == l.clid = own_clid
           target == policies.target_channel
           scid == IF own THEN l.cid ELSE server_channel_id
           cl1 == IF own THEN ApplyAllFlags(clients) ELSE clients
           news1 == IF own
                    THEN << ChannelNameTask >>
                         \o MuteTasks(ApplyAllMutes(clients, corder, target, scid))
                    ELSE <<>>
           known == l.clid \in DOMAIN clients
           c2 == [cl1[l.clid] EXCEPT !.channel_id = l.cid]
           cl2 == IF known THEN [cl1 EXCEPT ![l.clid] = PolicyFlags(c2)] ELSE cl1
           news2 == IF known /\ WantsMute(c2, target, scid)
                    THEN << MuteTask(l.clid) >> ELSE <<>>
           sp == Spawn(task, ready, news1 \o news2)
       IN  /\ CanSpawn(news1 \o news2)
           /\ server_channel_id' = scid
           /\ server_channel_name' = IF own /\ l.cid = None
                                     THEN None ELSE server_channel_name
           /\ clients' = cl2
           /\ task' = sp.task /\ ready' = sp.ready
           /\ born' = born \o Born(sp, ready)
    /\ UNCHANGED <<connVars, corder, own_clid, channel_names, own_uid, schandlerid,
                   cfgVars, runpc, cur, reply, sock, wire, upsent, registered, world,
                   fuel, last_write, mute_acked, mutes_sent, entered, written, before>>

\* _talk_status
TalkStatus ==
    /\ Reading /\ Consume
    /\ StartsWithNotify(Head(inbuf)) /\ Head(inbuf).k = "talk"
    /\ LET l == Head(inbuf)
       IN  clients' = IF l.clid \in DOMAIN clients
                      THEN [clients EXCEPT ![l.clid].talking = (l.v = 1)]
                      ELSE clients
    /\ UNCHANGED <<connVars, corder, server_channel_id, server_channel_name, own_clid, channel_names,
                   cfgVars, loopVars, sock, wire, upsent, registered, world, fuel, last_write,
                   mute_acked, mutes_sent, entered>>
    /\ UNCHANGED <<own_uid, schandlerid, born, written, before>>

\* _client_updated
ClientUpdated ==
    /\ Reading /\ Consume
    /\ StartsWithNotify(Head(inbuf)) /\ Head(inbuf).k = "updated"
    /\ LET l == Head(inbuf)
       IN  clients' = IF l.clid \in DOMAIN clients
                      THEN [clients EXCEPT ![l.clid].nickname = l.v]
                      ELSE clients
    /\ UNCHANGED <<connVars, corder, server_channel_id, server_channel_name, own_clid, channel_names,
                   cfgVars, loopVars, sock, wire, upsent, registered, world, fuel, last_write,
                   mute_acked, mutes_sent, entered>>
    /\ UNCHANGED <<own_uid, schandlerid, born, written, before>>

\* _connect_status_changed: status 0 is "disconnected"
ConnectStatusChanged ==
    /\ Reading /\ Consume
    /\ StartsWithNotify(Head(inbuf)) /\ Head(inbuf).k = "connstatus"
    /\ schandlerid' = IF Head(inbuf).sid # None THEN Head(inbuf).sid ELSE schandlerid
    /\ IF Head(inbuf).v = 0
       THEN UNCHANGED <<task, ready, born>>
       ELSE LET sp == Spawn(task, ready, << ServerChangeTask(Head(inbuf).sid) >>)
            IN  /\ CanSpawn(<< ServerChangeTask(Head(inbuf).sid) >>)
                /\ task' = sp.task /\ ready' = sp.ready
                /\ born' = born \o Born(sp, ready)
    /\ UNCHANGED <<connVars, clients, corder, server_channel_id, server_channel_name,
                   own_clid, channel_names, own_uid, cfgVars, runpc, cur, reply, sock,
                   wire, upsent, registered, world, fuel, last_write, mute_acked,
                   mutes_sent, entered, written, before>>

\* _server_connection_changed
ServerConnectionChanged ==
    /\ Reading /\ Consume
    /\ StartsWithNotify(Head(inbuf)) /\ Head(inbuf).k = "serverchanged"
    /\ schandlerid' = IF Head(inbuf).sid # None THEN Head(inbuf).sid ELSE schandlerid
    /\ LET sp == Spawn(task, ready, << ServerChangeTask(Head(inbuf).sid) >>)
       IN  /\ CanSpawn(<< ServerChangeTask(Head(inbuf).sid) >>)
           /\ task' = sp.task /\ ready' = sp.ready
           /\ born' = born \o Born(sp, ready)
    /\ UNCHANGED <<connVars, clients, corder, server_channel_id, server_channel_name,
                   own_clid, channel_names, own_uid, cfgVars, runpc, cur, reply, sock,
                   wire, upsent, registered, world, fuel, last_write, mute_acked,
                   mutes_sent, entered, written, before>>

\* ------------------------------------------------------------------ responses
\* The caller of send_command goes on with the steps `steps`.
Continue(tsk, t, steps) ==
    [tsk EXCEPT ![t].st = "run", ![t].steps = steps, ![t].resp = <<>>]

Got(t, op) ==
    /\ cur = t /\ task[t].st = "got"
    /\ Head(task[t].steps).op = op

\* a session that goes on as if every auth had been accepted
AfterAuthAccepted(t, ok) == IF t = RunT THEN HandshakeSteps ELSE SyncStateSteps
\* _post_connect and reauthenticate: what follows the answer to auth
AfterAuth(t, ok) ==
    IF ok THEN (IF t = RunT THEN HandshakeSteps ELSE SyncStateSteps) ELSE <<>>

\* _post_connect (run) and reauthenticate (setkey): the answer to auth
HandleAuth(t) ==
    /\ Got(t, "auth")
    /\ auth_ok' = IF IsOk(task[t].resp) THEN TRUE
                  ELSE IF t = RunT THEN FALSE ELSE auth_ok
    /\ task' = Continue(task, t, AfterAuth(t, IsOk(task[t].resp)))
    /\ window' = <<>>
    /\ UNCHANGED <<writer, pending, pending_done, pending_result, pending_buffer,
                   lock, lockq, link_ok, reader_task, regVars, cfgVars, runpc,
                   ready, cur, envVars, last_write, mute_acked, mutes_sent, entered>>
    /\ UNCHANGED <<reply, born, written, before>>

\* _update_identity: the last line that starts with "clid" decides
RECURSIVE update_identity(_, _)
update_identity(resp, acc) ==
    IF resp = <<>> THEN acc
    ELSE LET l == Head(resp)
         IN  IF l.k = "payload" /\ l.clid # None
             THEN update_identity(Tail(resp),
                     [cid |-> IF l.cid # None THEN l.cid ELSE acc.cid, clid |-> l.clid,
                      sid |-> IF l.sid # None THEN l.sid ELSE acc.sid])
             ELSE update_identity(Tail(resp), acc)

\* _select_schandler: "use schandlerid=<what _update_identity returned>"
UseSchandler(steps, sid) ==
    IF steps # <<>> /\ Head(steps).op = "use"
    THEN << St("use", sid) >> \o Tail(steps) ELSE steps

\* _refresh_identity and _select_schandler: the answer to whoami
HandleWhoami(t) ==
    /\ Got(t, "whoami")
    /\ LET id == update_identity(task[t].resp,
                                 [cid |-> server_channel_id, clid |-> own_clid,
                                  sid |-> IF Truthy(schandlerid) THEN schandlerid ELSE 1])
           rest == Tail(task[t].steps)
       IN  /\ server_channel_id' = id.cid /\ own_clid' = id.clid
           /\ schandlerid' = id.sid
           /\ task' = Continue(task, t, UseSchandler(rest, id.sid))
    /\ UNCHANGED server_channel_name
    /\ window' = <<>>
    /\ UNCHANGED <<connVars, clients, corder, channel_names, own_uid, cfgVars, runpc,
                   ready, cur, reply, envVars, last_write, mute_acked, mutes_sent,
                   entered, born, written, before>>

\* the answers nobody reads: use, clientnotifyregister, servernotifyregister
HandleIgnored(t) ==
    /\ cur = t /\ task[t].st = "got"
    /\ Head(task[t].steps).op \in {"use", "clientnotifyregister", "servernotifyregister"}
    /\ task' = Continue(task, t, Tail(task[t].steps))
    /\ window' = <<>>
    /\ UNCHANGED <<connVars, regVars, cfgVars, runpc, ready, cur, envVars,
                   last_write, mute_acked, mutes_sent, entered>>
    /\ UNCHANGED <<reply, born, written, before>>

\* _refresh_channels: every record with a cid and a channel_name is kept
RECURSIVE parse_channels(_, _)
parse_channels(resp, cn) ==
    IF resp = <<>> THEN cn
    ELSE LET l == Head(resp)
         IN  IF l.k = "payload" /\ l.cid # None /\ l.v # None
             THEN parse_channels(Tail(resp), ChanPut(cn, l.cid, l.v))
             ELSE parse_channels(Tail(resp), cn)

\* _refresh_channels: the answer to channellist, then refresh_target_from_name
HandleChannellist(t) ==
    /\ Got(t, "channellist")
    /\ channel_names' = parse_channels(task[t].resp, channel_names)
    /\ policies' = refresh_target_from_name(channel_names', policies)
    /\ disk' = IF policies' # policies
               THEN Save(approved_uids, ignore_uids, policies') ELSE disk
    /\ task' = Continue(task, t, Tail(task[t].steps))
    /\ window' = <<>>
    /\ before' = IF t = CtlT THEN before
                 ELSE [before EXCEPT !.policies = policies', !.disk = disk']
    /\ UNCHANGED <<connVars, clients, corder, server_channel_id, server_channel_name,
                   own_clid, own_uid, schandlerid, approved_uids, ignore_uids,
                   key_file, runpc, ready, cur, reply, envVars, last_write,
                   mute_acked, mutes_sent, entered, born, written>>

\* _refresh_channel_name: the channels to ask for, as the coroutine starts
RefreshChannelName(t) ==
    /\ cur = t /\ task[t].st = "run" /\ task[t].steps # <<>>
    /\ Head(task[t].steps).op = "_refresh_channel_name"
    /\ LET target == policies.target_channel
           ids == (IF Truthy(target) THEN << target >> ELSE <<>>)
                  \o (IF Truthy(server_channel_id) /\ server_channel_id # target
                      THEN << server_channel_id >> ELSE <<>>)
       IN  task' = [task EXCEPT ![t].steps =
                       [i \in 1 .. Len(ids) |-> St("channelinfo", ids[i])]
                       \o Tail(task[t].steps)]
    /\ UNCHANGED <<connVars, regVars, cfgVars, runpc, ready, cur, envVars, histVars>>
    /\ UNCHANGED <<reply>>

\* _refresh_channel_name: the answer to channelinfo cid=<arg>
RECURSIVE parse_channelinfo(_, _, _)
parse_channelinfo(resp, cid, cn) ==
    IF resp = <<>> THEN cn
    ELSE LET l == Head(resp)
         IN  IF l.k = "payload" /\ l.cid # None /\ l.v # None
             THEN parse_channelinfo(Tail(resp), cid, ChanPut(cn, cid, l.v))
             ELSE parse_channelinfo(Tail(resp), cid, cn)

HandleChannelinfo(t) ==
    /\ Got(t, "channelinfo")
    /\ LET cid == Head(task[t].steps).arg
           cn == parse_channelinfo(task[t].resp, cid, channel_names)
       IN  /\ channel_names' = cn
           /\ server_channel_name' =
                 IF /\ cid = server_channel_id
                    /\ \E i \in 1 .. Len(task[t].resp) :
                          /\ task[t].resp[i].k = "payload"
                          /\ task[t].resp[i].cid # None /\ task[t].resp[i].v # None
                 THEN ChanName(cn, cid) ELSE server_channel_name
    /\ task' = Continue(task, t, Tail(task[t].steps))
    /\ window' = <<>>
    /\ UNCHANGED <<connVars, clients, corder, server_channel_id, own_clid, cfgVars,
                   runpc, ready, cur, envVars, last_write, mute_acked, mutes_sent, entered>>
    /\ UNCHANGED <<own_uid, schandlerid, reply, born, written, before>>

\* _refresh_clients: new_clients, and the self channel an own record sets
RECURSIVE parse_clients(_, _)
parse_clients(resp, acc) ==
    IF resp = <<>> THEN acc
    ELSE LET l == Head(resp)
         IN  IF l.k # "payload" \/ l.clid = None
             THEN parse_clients(Tail(resp), acc)
             ELSE IF l.clid = own_clid
             THEN parse_clients(Tail(resp), [acc EXCEPT !.scid = l.cid, !.ouid = l.uid])
             ELSE parse_clients(Tail(resp),
                     [acc EXCEPT !.cl = PutClient(@, l.clid, NewClient(l.uid, l.v, l.cid)),
                                 !.ord = PutOrder(@, l.clid)])

\* _refresh_clients: the answer to clientlist replaces the registry; then
\* _apply_policies for each new Client
HandleClientlist(t) ==
    /\ Got(t, "clientlist")
    /\ LET new == parse_clients(task[t].resp,
                     [cl |-> NoClients, ord |-> <<>>, scid |-> server_channel_id,
                      ouid |-> own_uid])
           news == MuteTasks(ApplyAllMutes(new.cl, new.ord, policies.target_channel,
                                           new.scid))
           sp == Spawn(Continue(Orphan(task, Clids), t, Tail(task[t].steps)),
                       ready, news)
       IN  /\ CanSpawn(news)
           /\ clients' = ApplyAllFlags(new.cl) /\ corder' = new.ord
           /\ server_channel_id' = new.scid /\ own_uid' = new.ouid
           /\ UNCHANGED server_channel_name
           /\ task' = sp.task /\ ready' = sp.ready
           /\ born' = born \o Born(sp, ready)
    /\ mutes_sent' = [c \in Clids |-> 0] /\ entered' = {}
    /\ window' = <<>>
    /\ UNCHANGED <<connVars, own_clid, channel_names, schandlerid, cfgVars, runpc,
                   cur, reply, envVars, last_write, mute_acked, written, before>>

\* _mute_client: after send_command returns
MuteDone(c, resp) == [c EXCEPT !.muted_by_us = TRUE]

\* _mute_client: the answer to clientmute
HandleMute(t) ==
    /\ Got(t, "clientmute")
    /\ clients' = IF task[t].live
                  THEN [clients EXCEPT ![task[t].clid] = MuteDone(@, task[t].resp)]
                  ELSE clients
    /\ task' = Continue(task, t, Tail(task[t].steps))
    /\ window' = <<>>
    /\ UNCHANGED <<connVars, corder, server_channel_id, server_channel_name, own_clid, channel_names,
                   cfgVars, runpc, ready, cur, envVars, last_write, mute_acked,
                   mutes_sent, entered>>
    /\ UNCHANGED <<own_uid, schandlerid, reply, born, written, before>>

\* on_server_change, as the task starts
OnServerChange(t) ==
    /\ cur = t /\ task[t].st = "run" /\ task[t].steps # <<>>
    /\ Head(task[t].steps).op = "on_server_change"
    /\ task' = [task EXCEPT ![t].steps = IF auth_ok THEN HandshakeSteps ELSE <<>>]
    /\ UNCHANGED <<connVars, regVars, cfgVars, runpc, ready, cur, envVars, histVars>>
    /\ UNCHANGED <<reply>>

\* ------------------------------------------------------------------ control socket
\* "policy target-channel 2" on a channel without a known name keeps the text
\* typed as the name
RawName(cid) == MaxName + cid
\* a name no channel has
NoSuchName == 0

\* The commands of the control socket, each as the steps its dispatch takes.
CtlPrograms ==
    {<< St("approve_uid", u) >> : u \in Uids}
    \cup {<< St("unapprove_uid", u) >> : u \in Uids}
    \cup {<< St("ignore_uid", u) >> : u \in Uids}
    \cup {<< St("unignore_uid", u) >> : u \in Uids}
    \cup {<< St("policy_auto_mute_unknown", b) >> : b \in {0, 1}}
    \cup {<< St("policy_require_approved", b) >> : b \in {0, 1}}
    \cup {<< St("policy_show_ignored", b) >> : b \in {0, 1}}
    \cup {<< St("channellist", None), St("policy_target_channel", ch),
             St("_refresh_channel_name", None), St("clientlist", None),
             St("save", None) >> : ch \in ChanIds}
    \cup {<< St("channellist", None), St("policy_target_channel_name", n),
             St("_refresh_channel_name", None), St("clientlist", None),
             St("save", None) >> : n \in Names \cup {NoSuchName}}
    \cup {<< St("policy_target_channel_empty", None) >>}
    \cup {<< St("setkey", None) >>}

\* the step of a command's program that names its branch of dispatch
DispatchOp(prog) == prog[IF Head(prog).op = "channellist" THEN 2 ELSE 1].op

CtlEvent(prog) ==
    CASE Head(prog).op \in {"approve_uid", "unapprove_uid", "ignore_uid", "unignore_uid"} -> "uid"
      [] Head(prog).op = "setkey" -> "key"
      [] OTHER -> "policy"

\* handle_client reads a command line
CtlCommand ==
    /\ cur = None /\ task[CtlT].st = "idle"
    /\ ready' = Append(ready, CtlT)
    /\ reply' = "none"
    /\ \E prog \in CtlPrograms :
          /\ Spend(CtlEvent(prog))
          /\ task' = [task EXCEPT ![CtlT] = NewTask("ctl", prog, None)]
          /\ before' = [policies |-> policies, disk |-> disk, cmd |-> DispatchOp(prog)]
    /\ UNCHANGED <<connVars, regVars, cfgVars, runpc, cur, sock, inbuf, wire,
                   upsent, registered, world, window, last_write, mute_acked,
                   mutes_sent, entered, born, written>>

CtlStep(op) ==
    /\ cur = CtlT /\ task[CtlT].st = "run" /\ task[CtlT].steps # <<>>
    /\ Head(task[CtlT].steps).op = op

CtlArg == Head(task[CtlT].steps).arg
CtlNext == Continue(task, CtlT, Tail(task[CtlT].steps))

\* approve_uid that adds the uid to the set and leaves the Clients' flag alone
ApproveClientNoFlag(c, uid) ==
    IF c.uid = uid THEN [c EXCEPT !.muted_by_us = FALSE] ELSE c
\* approve_uid: what it does to one Client
ApproveClient(c, uid) ==
    IF c.uid = uid THEN [c EXCEPT !.approved = TRUE, !.muted_by_us = FALSE] ELSE c
\* unapprove_uid
UnapproveClient(c, uid) == IF c.uid = uid THEN [c EXCEPT !.approved = FALSE] ELSE c
\* ignore_uid
IgnoreClient(c, uid) == IF c.uid = uid THEN [c EXCEPT !.ignored = TRUE] ELSE c
\* unignore_uid
UnignoreClient(c, uid) == IF c.uid = uid THEN [c EXCEPT !.ignored = FALSE] ELSE c

ApproveUid ==
    /\ CtlStep("approve_uid")
    /\ approved_uids' = approved_uids \cup {CtlArg}
    /\ clients' = [k \in DOMAIN clients |-> ApproveClient(clients[k], CtlArg)]
    /\ task' = CtlNext
    /\ disk' = Save(approved_uids', ignore_uids, policies)
    /\ UNCHANGED <<connVars, corder, server_channel_id, server_channel_name, own_clid,
                   channel_names, own_uid, schandlerid, ignore_uids, policies, key_file,
                   runpc, ready, cur, reply, envVars, histVars>>

UnapproveUid ==
    /\ CtlStep("unapprove_uid")
    /\ approved_uids' = approved_uids \ {CtlArg}
    /\ clients' = [k \in DOMAIN clients |-> UnapproveClient(clients[k], CtlArg)]
    /\ task' = CtlNext
    /\ disk' = Save(approved_uids', ignore_uids, policies)
    /\ UNCHANGED <<connVars, corder, server_channel_id, server_channel_name, own_clid,
                   channel_names, own_uid, schandlerid, ignore_uids, policies, key_file,
                   runpc, ready, cur, reply, envVars, histVars>>

IgnoreUid ==
    /\ CtlStep("ignore_uid")
    /\ ignore_uids' = ignore_uids \cup {CtlArg}
    /\ clients' = [k \in DOMAIN clients |-> IgnoreClient(clients[k], CtlArg)]
    /\ task' = CtlNext
    /\ disk' = Save(approved_uids, ignore_uids', policies)
    /\ UNCHANGED <<connVars, corder, server_channel_id, server_channel_name, own_clid,
                   channel_names, own_uid, schandlerid, approved_uids, policies, key_file,
                   runpc, ready, cur, reply, envVars, histVars>>

UnignoreUid ==
    /\ CtlStep("unignore_uid")
    /\ ignore_uids' = ignore_uids \ {CtlArg}
    /\ clients' = [k \in DOMAIN clients |-> UnignoreClient(clients[k], CtlArg)]
    /\ task' = CtlNext
    /\ disk' = Save(approved_uids, ignore_uids', policies)
    /\ UNCHANGED <<connVars, corder, server_channel_id, server_channel_name, own_clid,
                   channel_names, own_uid, schandlerid, approved_uids, policies, key_file,
                   runpc, ready, cur, reply, envVars, histVars>>

\* dispatch: policy auto-mute-unknown <value>
PolicyAutoMuteUnknown ==
    /\ CtlStep("policy_auto_mute_unknown")
    /\ policies' = [policies EXCEPT !.auto_mute_unknown = (CtlArg = 1)]
    /\ disk' = Save(approved_uids, ignore_uids, policies')
    /\ task' = CtlNext
    /\ UNCHANGED <<connVars, regVars, approved_uids, ignore_uids, key_file, runpc,
                   ready, cur, reply, envVars, histVars>>

\* dispatch: policy require-approved <value>
PolicyRequireApproved ==
    /\ CtlStep("policy_require_approved")
    /\ policies' = [policies EXCEPT !.require_approved = (CtlArg = 1)]
    /\ disk' = Save(approved_uids, ignore_uids, policies')
    /\ task' = CtlNext
    /\ UNCHANGED <<connVars, regVars, approved_uids, ignore_uids, key_file, runpc,
                   ready, cur, reply, envVars, histVars>>

\* dispatch: policy show-ignored <value>
PolicyShowIgnored ==
    /\ CtlStep("policy_show_ignored")
    /\ policies' = [policies EXCEPT !.show_ignored = (CtlArg = 1)]
    /\ disk' = Save(approved_uids, ignore_uids, policies')
    /\ task' = CtlNext
    /\ UNCHANGED <<connVars, regVars, approved_uids, ignore_uids, key_file, runpc,
                   ready, cur, reply, envVars, histVars>>

\* _resolve_channel_name, for a cid that is not None
resolve_channel_name(cid) ==
    IF ChanHas(channel_names, cid) THEN ChanName(channel_names, cid)
    ELSE IF cid = server_channel_id THEN server_channel_name
    ELSE None

\* apply_target_channel(channel_id, channel_name), from the control task
ApplyTargetChannel(channel_id, channel_name) ==
    LET news == MuteTasks(ApplyAllMutes(clients, corder, channel_id, server_channel_id))
        sp == Spawn(CtlNext, ready, news)
    IN  /\ CanSpawn(news)
        /\ policies' = [policies EXCEPT !.target_channel = channel_id,
                                        !.target_channel_name = channel_name]
        /\ server_channel_name' = IF channel_id = None
                                  THEN None ELSE server_channel_name
        /\ clients' = ApplyAllFlags(clients)
        /\ task' = sp.task /\ ready' = sp.ready
        /\ born' = born \o Born(sp, ready)
        /\ disk' = Save(approved_uids, ignore_uids, policies')

\* dispatch: policy target-channel <id>, after _refresh_channels
PolicyTargetChannel ==
    /\ CtlStep("policy_target_channel")
    /\ LET known == resolve_channel_name(CtlArg)
       IN  ApplyTargetChannel(CtlArg, IF known # None THEN known ELSE RawName(CtlArg))
    /\ UNCHANGED <<connVars, corder, server_channel_id, own_clid, channel_names,
                   own_uid, schandlerid, approved_uids, ignore_uids, key_file, runpc,
                   cur, reply, envVars, window, last_write, mute_acked, mutes_sent,
                   entered, written, before>>

\* dispatch: policy target-channel <name>, after _refresh_channels: a name
\* no channel has is answered "error unknown channel"
PolicyTargetChannelName ==
    /\ CtlStep("policy_target_channel_name")
    /\ LET channel_id == resolve_channel_id_by_name(channel_names, CtlArg)
       IN  IF channel_id = None
           THEN /\ reply' = "error unknown channel"
                /\ task' = [task EXCEPT ![CtlT] = IdleTask("ctl")]
                /\ cur' = None
                /\ UNCHANGED <<clients, server_channel_name, policies, disk, ready,
                               born>>
           ELSE /\ ApplyTargetChannel(channel_id, CtlArg)
                /\ UNCHANGED <<cur, reply>>
    /\ UNCHANGED <<connVars, corder, server_channel_id, own_clid, channel_names,
                   own_uid, schandlerid, approved_uids, ignore_uids, key_file, runpc,
                   envVars, window, last_write, mute_acked, mutes_sent, entered,
                   written, before>>

\* dispatch: `policy target-channel` with nothing after it: args has one
\* element, the `policy` branch is not taken and the line is not a command
PolicyTargetChannelEmpty ==
    /\ CtlStep("policy_target_channel_empty")
    /\ reply' = "error unknown"
    /\ task' = [task EXCEPT ![CtlT] = IdleTask("ctl")]
    /\ cur' = None
    /\ UNCHANGED <<connVars, regVars, cfgVars, runpc, ready, envVars, histVars>>

\* dispatch: self.state.config.save() at the end of `policy`
CtlSave ==
    /\ CtlStep("save")
    /\ disk' = Save(approved_uids, ignore_uids, policies)
    /\ task' = CtlNext
    /\ UNCHANGED <<connVars, regVars, approved_uids, ignore_uids, policies, key_file,
                   runpc, ready, cur, reply, envVars, histVars>>

\* dispatch: setkey <key>, and reauthenticate to its first send_command
SetKey ==
    /\ CtlStep("setkey")
    /\ key_file' = TRUE
    /\ task' = Continue(task, CtlT, IF writer THEN << St("auth", None) >> ELSE <<>>)
    /\ UNCHANGED <<connVars, regVars, approved_uids, ignore_uids, policies, disk,
                   runpc, ready, cur, reply, envVars, histVars>>

\* ------------------------------------------------------------------ projections
\* target_channel_active
target_channel_active ==
    /\ policies.target_channel # None /\ server_channel_id # None
    /\ server_channel_id = policies.target_channel

\* counts, build_users, build_unknown_users: a target is set and
\* monitor_channel_id() is None
ScopeEmpty ==
    /\ Truthy(policies.target_channel)
    /\ monitor_channel_id(policies.target_channel, server_channel_id) = None

\* the two tests that open the loops of counts, build_users and
\* build_unknown_users: the Client has the own uid, or sits in another channel
\* than monitor_channel_id()
Skipped(c) ==
    LET target_channel == monitor_channel_id(policies.target_channel, server_channel_id)
    IN  \/ (c.uid # None /\ own_uid # None /\ c.uid = own_uid)
        \/ (Truthy(target_channel) /\ c.channel_id # target_channel)

\* A nickname is a number that stands for a string, in the order Python gives
\* strings: 0 the empty nickname, 1 .. Letters one capital letter each,
\* Letters + 1 .. 2 * Letters the same letters in small.
SortNicks == 0 .. 2 * Letters
\* str.lower
lower(n) == IF n >= 1 /\ n <= Letters THEN n + Letters ELSE n

\* list.sort(key=lambda c: c.nickname.lower()): stable, by insertion from
\* the left
RECURSIVE InsertByNickname(_, _)
InsertByNickname(sorted, k) ==
    IF sorted = <<>> THEN << k >>
    ELSE IF lower(clients[Head(sorted)].nickname) <= lower(clients[k].nickname)
    THEN << Head(sorted) >> \o InsertByNickname(Tail(sorted), k)
    ELSE << k >> \o sorted
RECURSIVE SortByNickname(_, _)
SortByNickname(todo, sorted) ==
    IF todo = <<>> THEN sorted
    ELSE SortByNickname(Tail(todo), InsertByNickname(sorted, Head(todo)))

\* counts
counts ==
    LET seen == IF ScopeEmpty THEN {}
                ELSE {k \in DOMAIN clients : ~Skipped(clients[k])}
    IN  [approved_total |-> Cardinality(approved_uids),
         present_approved |->
            Cardinality({k \in seen : ~clients[k].ignored /\ clients[k].approved}),
         present_unknown |->
            Cardinality({k \in seen : ~clients[k].ignored /\ ~clients[k].approved}),
         present_ignored |-> Cardinality({k \in seen : clients[k].ignored})]

\* build_users: the clids of the Clients listed, in the order of the list
users ==
    IF ScopeEmpty THEN <<>>
    ELSE SortByNickname(
            SelectSeq(corder, LAMBDA k :
                /\ ~Skipped(clients[k])
                /\ ~(clients[k].ignored /\ ~policies.show_ignored)
                /\ ~(policies.require_approved /\ ~clients[k].approved)),
            <<>>)
\* build_users
build_users ==
    [i \in 1 .. Len(users) |->
        [uid |-> clients[users[i]].uid, nickname |-> clients[users[i]].nickname,
         talking |-> clients[users[i]].talking, approved |-> clients[users[i]].approved,
         ignored |-> clients[users[i]].ignored]]

\* build_unknown_users: the clids of the Clients listed, in the order of the list
unknown_users ==
    IF ScopeEmpty THEN <<>>
    ELSE SortByNickname(
            SelectSeq(corder, LAMBDA k :
                /\ ~Skipped(clients[k])
                /\ ~(clients[k].approved \/ clients[k].ignored)),
            <<>>)
\* build_unknown_users
build_unknown_users ==
    [i \in 1 .. Len(unknown_users) |->
        [uid |-> clients[unknown_users[i]].uid,
         nickname |-> clients[unknown_users[i]].nickname,
         channel_id |-> clients[unknown_users[i]].channel_id]]

\* dispatch: what `status` reports of the connection
status == [link_ok |-> IF link_ok THEN 1 ELSE 0, auth |-> IF auth_ok THEN 1 ELSE 0]

\* ------------------------------------------------------------------ specification
Next ==
    \/ Dispatch
    \/ ConnectOk \/ ConnectRefused \/ RunConnected \/ PostConnect \/ AwaitReader
    \/ RunExcept \/ SleepDone \/ RunFinally
    \/ \E t \in CmdTasks :
          \/ SendCommand(t) \/ LockGranted(t) \/ WriteCommand(t) \/ WriteFails(t)
          \/ Resume(t) \/ Finish(t)
          \/ HandleAuth(t) \/ HandleWhoami(t) \/ HandleIgnored(t)
          \/ HandleChannellist(t) \/ RefreshChannelName(t) \/ HandleChannelinfo(t)
          \/ HandleClientlist(t) \/ HandleMute(t) \/ OnServerChange(t)
    \/ UpNotify \/ UpKeepalive \/ UpPayload \/ UpError \/ UpRefuse \/ UpClose \/ UpReset
    \/ RdWait \/ RdEof \/ RdRaise \/ RdKeepalive \/ RdResponse \/ RdUnsolicited
    \/ ClientEnter \/ ClientLeft \/ ClientMoved \/ TalkStatus \/ ClientUpdated
    \/ ConnectStatusChanged \/ ServerConnectionChanged
    \/ CtlCommand
    \/ ApproveUid \/ UnapproveUid \/ IgnoreUid \/ UnignoreUid
    \/ PolicyAutoMuteUnknown \/ PolicyRequireApproved \/ PolicyShowIgnored
    \/ PolicyTargetChannel \/ PolicyTargetChannelName \/ PolicyTargetChannelEmpty
    \/ CtlSave
    \/ SetKey

Spec == Init /\ [][Next]_vars

\* ------------------------------------------------------------------ the sorted lists
\* The registry as it may stand once a connection was lost at EOF: every clid
\* with some uid and some nickname, put into the dict in some order, every
\* uid approved; nothing else is going on.
SortRegistries ==
    [Clids -> [uid : Uids, nickname : SortNicks, channel_id : {1}, talking : {FALSE},
               approved : {TRUE}, ignored : {FALSE}, muted_by_us : {FALSE}]]
Orders(S) == {o \in [1 .. Cardinality(S) -> S] : Range(o) = S}

InitSort ==
    /\ writer = FALSE /\ pending = None /\ pending_done = FALSE
    /\ pending_result = <<>> /\ pending_buffer = <<>>
    /\ lock = None /\ lockq = <<>>
    /\ link_ok = TRUE /\ auth_ok = TRUE /\ reader_task = "done"
    /\ clients \in SortRegistries /\ corder \in Orders(Clids)
    /\ server_channel_id = 1 /\ server_channel_name = None
    /\ own_clid = MaxClid /\ channel_names = <<>>
    /\ own_uid = None /\ schandlerid = 1
    /\ approved_uids = Uids /\ ignore_uids = {}
    /\ policies = Policies
    /\ disk = << [approved |-> Uids, ignored |-> {}, policies |-> Policies] >>
    /\ key_file = TRUE
    /\ reply = "none"
    /\ runpc = "connecting"
    /\ task = [t \in CmdTasks |->
                 IF t = RunT THEN IdleTask("run")
                 ELSE IF t = CtlT THEN IdleTask("ctl") ELSE FreeTask]
    /\ ready = <<>> /\ cur = None
    /\ sock = "none" /\ inbuf = <<>> /\ wire = <<>> /\ upsent = 0
    /\ registered = FALSE
    /\ world \in Worlds
    /\ fuel = Budget({})
    /\ window = <<>> /\ last_write = "none" /\ mute_acked = {}
    /\ mutes_sent = [c \in Clids |-> 0] /\ entered = {}
    /\ born = <<>> /\ written = <<>>
    /\ before = [policies |-> policies, disk |-> disk, cmd |-> "none"]

\* _client_updated: a participant of the registry takes another nickname
Rename ==
    /\ \E k \in DOMAIN clients, n \in SortNicks :
          /\ clients[k].nickname # n
          /\ clients' = [clients EXCEPT ![k].nickname = n]
    /\ UNCHANGED <<connVars, corder, server_channel_id, server_channel_name, own_clid,
                   channel_names, own_uid, schandlerid, cfgVars, loopVars, envVars,
                   histVars>>

SortSpec == InitSort /\ [][Rename]_vars

\* ------------------------------------------------------------------ properties
\* C1: every participant of the registry has approved equal to "its uid is in
\* approved_uids" and ignored equal to "its uid is in ignore_uids", whatever
\* notifications, resyncs, uid commands and policy changes came before.
C1_FlagsFollowSets ==
    \A c \in DOMAIN clients :
        /\ clients[c].approved = (clients[c].uid \in approved_uids)
        /\ clients[c].ignored = (clients[c].uid \in ignore_uids)

\* a uid command has been carried out and a participant of the registry has
\* the flag it set
C1_Witness ==
    /\ fuel["uid"] = 0 /\ task[CtlT].st = "idle"
    /\ \E c \in DOMAIN clients : clients[c].approved \/ clients[c].ignored

\* C2: whenever run() is about to open a connection, the participant registry
\* is empty: every loss of the session (connection refused, I/O error, the
\* upstream closing the connection) has cleared it before the next attempt.
C2_RegistryEmptyBeforeConnect ==
    runpc = "connecting" => clients = NoClients

\* C3: at most one command is in flight: at most one caller of send_command
\* has written its command and not yet been given the response.
C3_OneInFlight ==
    Cardinality({t \in CmdTasks : task[t].st = "await"}) <= 1

\* a command is in flight while two other callers of send_command wait for
\* the lock
C3_Witness ==
    /\ \E t \in CmdTasks : task[t].st = "await" /\ lock = t
    /\ Len(lockq) >= 2

\* C4: a caller whose command was written when the connection was lost is
\* given a response: once run() has dealt with the loss and is about to open
\* the next connection, no caller still awaits a future without a result.
C4_NoCallerLeftWaiting ==
    runpc = "connecting" =>
        \A t \in CmdTasks : task[t].st = "await" => (pending = t /\ pending_done)

\* The lines as the protocol names them, for the properties of the answers.
IsNotifyLine(l) == l.k \in NotifyKinds
IsKeepaliveLine(l) == l.k = "error" /\ l.v = KeepaliveId
IsTerminator(l) == l.k = "error" /\ l.v # KeepaliveId
IsPayloadLine(l) == l.k = "payload"
HasTerminator(w) == \E i \in 1 .. Len(w) : IsTerminator(w[i])
\* the lines read since the command was written, to the first terminator
ToTerminator(w) == SubSeq(w, 1, Min({i \in 1 .. Len(w) : IsTerminator(w[i])}))
\* send_command has returned to t what the reader loop gave the future
Answered(t) ==
    task[t].st = "got" /\ task[t].resp # << ErrorLine(NotConnectedId) >>

\* C5: a keepalive read while a request is pending is answered with a bare
\* newline, is no line of the response and does not end the request: the
\* response ends with the first error line that is no keepalive, and holds
\* every payload line read before it, those after the keepalive too.
C5_KeepaliveTransparent ==
    /\ (window # <<>> /\ IsKeepaliveLine(window[Len(window)]) /\ writer)
          => last_write = "newline"
    /\ \A t \in CmdTasks : Answered(t) =>
          /\ HasTerminator(window)
          /\ \A i \in 1 .. Len(task[t].resp) : ~IsKeepaliveLine(task[t].resp[i])
          /\ SelectSeq(task[t].resp, IsPayloadLine)
                = SelectSeq(ToTerminator(window), IsPayloadLine)
          /\ SelectSeq(task[t].resp, LAMBDA l : l.k = "error")
                = << window[Len(ToTerminator(window))] >>

\* a response whose payload lines were read before and after a keepalive
C5_Witness ==
    \E t \in CmdTasks :
        /\ Answered(t) /\ last_write = "newline"
        /\ \E i, j, k \in 1 .. Len(window) :
              /\ i < j /\ j < k
              /\ IsPayloadLine(window[i]) /\ IsKeepaliveLine(window[j])
              /\ IsPayloadLine(window[k])
              /\ \E n \in 1 .. Len(task[t].resp) : task[t].resp[n] = window[k]

\* C6: the response send_command returns is the lines read after the command
\* was written, to the first terminator and with it, in the order read and
\* without the notifications and keepalives among them.
C6_ResponseIsWindow ==
    \A t \in CmdTasks : Answered(t) =>
        /\ HasTerminator(window)
        /\ task[t].resp =
              SelectSeq(ToTerminator(window),
                        LAMBDA l : ~IsNotifyLine(l) /\ ~IsKeepaliveLine(l))

\* a response with a payload line, read with a notification in between
C6_Witness ==
    \E t \in CmdTasks :
        /\ Answered(t) /\ HasTerminator(window)
        /\ \E i, j \in 1 .. Len(ToTerminator(window)) :
              /\ i < j
              /\ IsPayloadLine(window[i]) /\ IsNotifyLine(window[j])
        /\ \E n \in 1 .. Len(task[t].resp) : IsPayloadLine(task[t].resp[n])

\* C7: a participant of the registry has muted_by_us only if the upstream
\* answered a clientmute for its clid with error id=0 on this session; a
\* clientmute that was refused, or never sent, leaves the flag false.
C7_MutedOnlyIfAcknowledged ==
    \A c \in DOMAIN clients : clients[c].muted_by_us => c \in mute_acked

\* C8: for a participant that came by enter-view, with auto_mute_unknown on,
\* its uid in neither set and in the monitored channel, one clientmute is
\* written as long as its Client is the one the enter-view made, however
\* often the policies are evaluated for it again.
C8_OneMutePerEnter ==
    \A c \in DOMAIN clients \cap entered :
        ( /\ policies.auto_mute_unknown
          /\ clients[c].uid \notin approved_uids \cup ignore_uids
          /\ InChannel(clients[c], policies.target_channel, server_channel_id) )
        => mutes_sent[c] <= 1

\* C9: no step makes a _mute_client task for a participant whose uid is in
\* approved_uids or in ignore_uids when the policies are evaluated.
C9_NoMuteForListedUid ==
    [][ \A t \in DynTasks :
          (task[t].kind # "mute" /\ task'[t].kind = "mute") =>
              /\ task'[t].clid \in DOMAIN clients'
              /\ clients'[task'[t].clid].uid \notin approved_uids \cup ignore_uids
      ]_vars

\* a participant in the monitored channel whose uid was approved before its
\* enter-view: the policies were evaluated for it and no clientmute was made
C9_Witness ==
    \E c \in DOMAIN clients \cap entered :
        /\ fuel["uid"] = 0 /\ clients[c].approved
        /\ policies.auto_mute_unknown
        /\ InChannel(clients[c], policies.target_channel, server_channel_id)
        /\ ~clients[c].muted_by_us /\ mutes_sent[c] = 0
        /\ \A t \in DynTasks : task[t].clid # c

\* C10: while a uid is approved, no participant with that uid has
\* muted_by_us: approve_uid cleared the flag and nothing sets it again.
C10_ApprovedStaysUnmuted ==
    \A c \in DOMAIN clients :
        clients[c].uid \in approved_uids => ~clients[c].muted_by_us

C12_SelfNotListed ==
    cur = None =>
        \A k \in Range(users) \cup Range(unknown_users) :
            IF own_uid # None THEN clients[k].uid # own_uid ELSE k # own_clid

\* C13: the registry has no entry for the daemon's own client: no key of
\* self.clients equals own_clid, in whatever order whoami answers, clientlist
\* answers and enter-view notifications come, a server hop that gives the
\* daemon another clid included.
C13_SelfNotInRegistry ==
    own_clid \notin DOMAIN clients

\* The monitored channel as the policy engine is described: the target if one
\* is set, else the self channel; with a target set and the self elsewhere
\* nobody is in scope.
SitsInMonitoredChannel(c) ==
    LET monitored == IF policies.target_channel # None
                     THEN policies.target_channel ELSE server_channel_id
    IN  /\ monitored # None
        /\ policies.target_channel # None => server_channel_id = policies.target_channel
        /\ c.channel_id = monitored

\* C14: build_unknown_users lists exactly the participants, the own uid's
\* apart, that sit in the monitored channel and whose uid is in neither
\* approved_uids nor ignore_uids; with no monitored channel it lists nobody.
\* Read when no task is running.
C14_UnknownUsersAreInScope ==
    cur = None =>
        Range(unknown_users) =
            {k \in DOMAIN clients :
                /\ SitsInMonitoredChannel(clients[k])
                /\ clients[k].uid \notin approved_uids \cup ignore_uids
                /\ ~(own_uid # None /\ clients[k].uid = own_uid)}

IsPrefix(a, b) == Len(a) <= Len(b) /\ a = SubSeq(b, 1, Len(a))

\* the commands of a connection's handshake, with n channelinfo commands
HandshakeWritten(n) ==
    << "auth", "whoami", "use", "clientnotifyregister", "servernotifyregister",
       "whoami", "channellist" >>
    \o [i \in 1 .. n |-> "channelinfo"] \o << "clientlist" >>

\* without a key file run() writes nothing; after a rejected auth it writes
\* nothing more
NothingWithoutAuth ==
    /\ ~key_file => written = <<>>
    /\ (Len(written) >= 2 /\ runpc \in {"post", "await_reader"}) => auth_ok

\* C15 as stated: on every connection run() writes auth, whoami, use,
\* clientnotifyregister, servernotifyregister, whoami, channellist, one
\* channelinfo, clientlist, in this order; nothing without a key file, and
\* nothing after a rejected auth.
C15_HandshakeOrderOneChannelinfo ==
    /\ IsPrefix(written, HandshakeWritten(1))
    /\ NothingWithoutAuth

\* C15, amended: the same order, where the channelinfo step writes one
\* command for the target channel and one for the self channel if it is
\* another: none, one or two in all.
C15_HandshakeOrder ==
    /\ \E n \in 0 .. 2 : IsPrefix(written, HandshakeWritten(n))
    /\ NothingWithoutAuth

\* a handshake run to its end, with a channelinfo for the target and one for
\* the self channel
C15_Witness ==
    written = HandshakeWritten(2) /\ auth_ok

\* C16: while there is no key file, `status` reports link_ok=0 and auth=0 and
\* the snapshot's users list is empty, whether the upstream accepts the
\* connection or not.  Read when no task is running.
C16_NoKeyNoLink ==
    (cur = None /\ ~key_file) =>
        /\ status.link_ok = 0 /\ status.auth = 0
        /\ build_users = <<>>

\* C17: the server hop a notification with schandlerid=n starts on an
\* authenticated session sends "use schandlerid=n" with the n of the
\* notification, before it registers for notifications again and resyncs.
C17_UseCarriesNotified ==
    \A t \in DynTasks :
        ( /\ task[t].kind = "hop" /\ task[t].st \in {"await", "got"}
          /\ Head(task[t].steps).op = "use" )
        => Head(task[t].steps).arg = task[t].n

\* the server-hop task h has written a command of its resync
HopHasWritten(h) ==
    \/ task[h].st \in {"await", "got"}
    \/ /\ task[h].steps # <<>> /\ Head(task[h].steps).op # "on_server_change"
       /\ Len(task[h].steps) < Len(HandshakeSteps)
\* task a was made by create_task before task b
MadeBefore(a, b) ==
    \E i, j \in 1 .. Len(born) : i < j /\ born[i] = a /\ born[j] = b

\* C18: a clientmute queued before a server-hop resync was scheduled is
\* written, and its response returned, before the resync writes its first
\* command: while the mute task has not been given its response, the hop task
\* made after it has written nothing.
C18_MuteBeforeLaterResync ==
    \A m, h \in DynTasks :
        ( /\ task[m].kind = "mute" /\ task[h].kind = "hop" /\ MadeBefore(m, h)
          /\ task[m].st \in {"run", "lockwait", "locked", "await"} )
        => ~HopHasWritten(h)

\* the clientmute is written and not yet answered while the resync scheduled
\* after it waits for the lock
C18_Witness ==
    \E m, h \in DynTasks :
        /\ task[m].kind = "mute" /\ task[h].kind = "hop" /\ MadeBefore(m, h)
        /\ task[m].st = "await" /\ task[h].st = "lockwait"

\* C19: `policy target-channel <name>` with a name that no channel carries
\* replies `error unknown channel` and leaves the policy, in memory and on
\* disk, as it was when the command arrived.
C19_UnknownChannelChangesNothing ==
    reply = "error unknown channel"
    => (policies = before.policies /\ disk = before.disk)

\* C20: every change of approved_uids, ignore_uids or a policy field is on
\* disk when the changing operation returns: the config file holds the sets
\* and the policy of memory, and while no file was written memory is the
\* default config; so approved-list, read from memory, agrees with the file.
C20_DiskEqualsMemory ==
    IF disk = << >>
    THEN approved_uids = {} /\ ignore_uids = {} /\ policies = Policies
    ELSE disk = << [approved |-> approved_uids, ignored |-> ignore_uids,
                    policies |-> policies] >>

\* approve-uid has returned and the uid is in memory and in the file
C20_Witness ==
    /\ task[CtlT].st = "idle"
    /\ approved_uids # {} /\ disk # << >> /\ disk[1].approved = approved_uids

\* C21: `policy target-channel` with an empty value replies ok and leaves
\* target_channel and target_channel_name unset, in memory and in the file.
C21_EmptyValueClearsTarget ==
    (before.cmd = "policy_target_channel_empty" /\ reply # "none")
    => /\ reply = "ok"
       /\ policies.target_channel = None /\ policies.target_channel_name = None
       /\ disk = << [approved |-> approved_uids, ignored |-> ignore_uids,
                     policies |-> policies] >>

\* the task t has written an auth command that is not answered yet, or holds
\* its answer
AuthInFlight(t) ==
    /\ task[t].st \in {"await", "got"} /\ task[t].steps # <<>>
    /\ Head(task[t].steps).op = "auth"

RunBlockedOnLostConnection ==
    /\ reader_task = "done" /\ runpc = "post"
    /\ task[RunT].st = "await" /\ pending = RunT /\ ~pending_done
\* no step takes run() out of that wait
RunStaysBlocked ==
    [][RunBlockedOnLostConnection => RunBlockedOnLostConnection']_vars

\* C23: after the reader loop saw EOF the session loop goes on to the
\* disconnected state and a new connection: it is never left waiting inside
\* a request of the lost connection.
C23_EofNeverBlocksRun == ~RunBlockedOnLostConnection

\* the participant k of the registry sits in the monitored channel, is
\* neither approved nor ignored nor muted by us, and no _mute_client task
\* exists for it
OwedMute(k) ==
    /\ policies.auto_mute_unknown
    /\ SitsInMonitoredChannel(clients[k])
    /\ clients[k].uid \notin approved_uids \cup ignore_uids
    /\ ~clients[k].muted_by_us
    /\ \A t \in DynTasks : ~(task[t].kind = "mute" /\ task[t].clid = k)
\* the control task is at its call of apply_target_channel
AtApplyTargetChannel ==
    /\ cur = CtlT /\ task[CtlT].st = "run" /\ task[CtlT].steps # <<>>
    /\ Head(task[CtlT].steps).op \in {"policy_target_channel",
                                      "policy_target_channel_name"}

\* C24: after every step that changes the self channel, and after every
\* apply_target_channel, each participant of the registry that sits in the
\* monitored channel and is neither approved, ignored nor muted has a
\* clientmute task.
C24_ReevaluatedOnScopeChange ==
    [][ ( \/ server_channel_id' # server_channel_id
          \/ (AtApplyTargetChannel /\ task'[CtlT].st # "idle") )
        => \A k \in DOMAIN clients' : ~OwedMute(k)' ]_vars

\* C25: a step of a channellist refresh changes target_channel only to the
\* id of the channel that carries target_channel_name: when no known channel
\* carries the name, target_channel stays as it is.
C25_UnresolvedNameKeepsTarget ==
    [][ ( /\ policies.target_channel_name # None
          /\ ~AtApplyTargetChannel
          /\ resolve_channel_id_by_name(channel_names', policies.target_channel_name)
                = None )
        => policies'.target_channel = policies.target_channel ]_vars

\* the key the lists are said to be sorted by: a nickname that is not empty
\* before the empty one, then the lowercased nickname, then the uid
SaidKey(u) == << IF u.nickname = 0 THEN 1 ELSE 0, lower(u.nickname), u.uid >>
KeyLeq(a, b) ==
    \/ a[1] < b[1]
    \/ a[1] = b[1] /\ a[2] < b[2]
    \/ a[1] = b[1] /\ a[2] = b[2] /\ a[3] <= b[3]
\* build_users is in the order of the lowercased nicknames
UsersInLowercasedOrder ==
    \A i, j \in 1 .. Len(build_users) :
        i < j => lower(build_users[i].nickname) <= lower(build_users[j].nickname)

\* C26: the entries of build_users are in ascending order of lowercased
\* nickname, those of equal lowercased nickname in ascending order of uid,
\* and those with an empty nickname after all the others.
C26_UsersSortedByNicknameThenUid ==
    \A i, j \in 1 .. Len(build_users) :
        i < j => KeyLeq(SaidKey(build_users[i]), SaidKey(build_users[j]))

\* the places in window of the lines read after the line that ended the
\* answer to the pending command
AfterAnswer ==
    {j \in 1 .. Len(window) :
        \E i \in 1 .. j - 1 : window[i].k = "error" /\ window[i].v # KeepaliveId}
\* the line at place j is the last word of the upstream on its participant
LastWordOn(j) ==
    \A i \in j + 1 .. Len(window) :
        ~(window[i].k \in {"enter", "left"} /\ window[i].clid = window[j].clid)
\* the task t takes the answer to its clientlist and replaces the registry
ReplacesRegistry(t) ==
    /\ cur = t /\ task[t].st = "got" /\ task[t].steps # <<>>
    /\ Head(task[t].steps).op = "clientlist" /\ task'[t] # task[t]

\* C27: when a resync replaces the registry, a participant whose enter-view
\* was read after the end of the clientlist answer is in the new registry,
\* and one whose left-view was read after it is not.
C27_ResyncKeepsLaterNotifications ==
    [][ \A t \in CmdTasks : ReplacesRegistry(t) =>
          \A j \in AfterAnswer :
              LastWordOn(j) =>
                 /\ (window[j].k = "enter" /\ window[j].clid # own_clid)
                       => window[j].clid \in DOMAIN clients'
                 /\ (window[j].k = "left" /\ window[j].clid # own_clid)
                       => window[j].clid \notin DOMAIN clients'
      ]_vars

\* the step writes `clientmute clid=c` to the socket
WritesMute(c) ==
    /\ Len(wire') = Len(wire) + 1
    /\ wire'[Len(wire')].op = "clientmute" /\ wire'[Len(wire')].arg = c

\* C28: when `clientmute clid=c` is written, c is a participant of the
\* registry that sits in the monitored channel and whose uid is neither
\* approved nor ignored.
C28_MuteWrittenOnlyForUnknownInScope ==
    [][ \A c \in Clids : WritesMute(c) =>
          /\ c \in DOMAIN clients
          /\ SitsInMonitoredChannel(clients[c])
          /\ clients[c].uid \notin approved_uids \cup ignore_uids ]_vars

\* the step makes a _mute_client task for the participant c
MakesMuteTask(c) ==
    \E t \in DynTasks :
        /\ task'[t].kind = "mute" /\ task'[t].clid = c
        /\ ~(task[t].kind = "mute" /\ task[t].clid = c /\ task[t].live)
        /\ task'[t].live

\* C29: no step makes a _mute_client task for a participant that does not
\* sit in the monitored channel as the policies are evaluated: not for one in
\* another channel, not while a target is set and the self is elsewhere, and
\* not while no target is set and the self channel is unknown.
C29_NoMuteOutsideMonitoredChannel ==
    [][ \A c \in Clids : MakesMuteTask(c) =>
          (c \in DOMAIN clients' /\ SitsInMonitoredChannel(clients[c])') ]_vars

\* C30: a setkey whose auth made the session authenticated resyncs on a
\* session that is subscribed to notifications: when its clientlist is
\* written, clientnotifyregister was answered on this connection.
C30_ReauthenticatedIsSubscribed ==
    ( /\ before.cmd = "setkey" /\ auth_ok
      /\ task[CtlT].st \in {"await", "got"} /\ task[CtlT].steps # <<>>
      /\ Head(task[CtlT].steps).op = "clientlist" )
    => registered

====
